---- MODULE Spec2Model ----
(***************************************************************************)
(* Model of the VEX-rankings data engine (src/data_fetcher.py): one        *)
(* refresh cycle run_once = fetch_teams, fetch_matches (parse + global     *)
(* sort), compute_elo_sos (pairwise Elo updates, schedule strength) and    *)
(* the output assembly (exclusion filter, rescale, publish), with          *)
(* fetch_skills and the skills merge, the two files a cycle writes         *)
(* (dashboard_data.csv, rankings/index.html), the requests and file        *)
(* operations that can fail, the dashboard's load_data (src/app.py), the   *)
(* command line's two modes and the retry loop of _get.                    *)
(*                                                                         *)
(* Number representation.  The program computes in IEEE doubles; the model *)
(* computes in fixed point with ONE = 10^4 units per rating point, which   *)
(* is also the resolution of a probability (0.0001).  K * (s - e) is then  *)
(* an exact integer, the only approximation is the value of the expected   *)
(* score itself (an integer Taylor evaluation of 10^x, accurate to a few   *)
(* units of 10^-4).  round(x, 2) and round(x, 4) are modelled as roundings *)
(* to 100 units and to 1 unit.                                             *)
(***************************************************************************)
EXTENDS Integers, Sequences, FiniteSets, TLC

\* ---------------------------------------------------------------- bounds
MaxMatches == 2
MaxTime == 2
MaxAttempts == 3

\* ------------------------------------------------------ program constants
K_FACTOR == 32
INITIAL_ELO == 1500

\* fixed point: units per rating point, and per unit of probability
ONE == 10000
\* ln(10) / 400 = 0.0057564..., as a multiple of 10^-6
LN10_PER_400 == 5756
\* number of Taylor terms of the exponential series
ExpTerms == 14

Baseline == INITIAL_ELO * ONE

\* ------------------------------------------------------------- arithmetic
Abs(n) == IF n < 0 THEN -n ELSE n

\* n / d rounded to the nearest integer (d > 0), halves away from zero
RoundDiv(n, d) == IF n >= 0 THEN (2 * n + d) \div (2 * d)
                            ELSE -((2 * (-n) + d) \div (2 * d))

\* round(x, 2) of a rating held in units of 10^-4
Round2(x) == RoundDiv(x, 100) * 100

RECURSIVE ExpSeries(_, _, _)
\* sum of the Taylor terms of e^x from term number n on; x and term in ONE units
ExpSeries(x, term, n) ==
    IF n > ExpTerms \/ term = 0 THEN 0
    ELSE term + ExpSeries(x, RoundDiv(term * x, n * ONE), n + 1)

\* 10 ** (d / 400) for a rating difference d (units of 10^-4 point), in ONE units
Pow10(d) == ExpSeries(RoundDiv(RoundDiv(d, 100) * LN10_PER_400, 10000), ONE, 1)

\* ea = 1 / (1 + 10 ** ((elo[b] - elo[a]) / 400)), in ONE units.  The function
\* satisfies e(x) + e(-x) = 1, which the doubles keep to 10^-16 and a rounding
\* to 10^-4 on both sides would not: the quotient is rounded on the side of
\* the non-negative exponent and mirrored on the other.
Expected(rb, ra) ==
    IF rb >= ra
    THEN RoundDiv(ONE * ONE, ONE + Pow10(rb - ra))
    ELSE ONE - RoundDiv(ONE * ONE, ONE + Pow10(ra - rb))

\* ------------------------------------------------------------ input data
\* team numbers that occur in match rosters, and one that only the roster has
Teams == {"A", "B", "C", "D"}
Benched == "E"

\* a missing "started" field of the API, and pandas' NaT after the coercion
NoTime == 0
NaT == -1

\* <<red roster, blue roster>> as the API lists them; a roster may be empty
Pairings ==
    { <<(<<"A">>), (<<"B">>)>>, <<(<<"B">>), (<<"A">>)>>, <<(<<"C">>), (<<"D">>)>>,
      <<(<<"A", "B">>), (<<"C", "D">>)>>, <<(<<"A", "C">>), (<<"B">>)>>,
      <<(<<"D">>), (<<"B", "C">>)>>,
      <<(<< >>), (<<"A">>)>>, <<(<<"A", "B">>), (<< >>)>> }

\* the pairings of the logs whose timestamps vary
OrderPairings == { <<(<<"A">>), (<<"B">>)>>, <<(<<"B">>), (<<"C">>)>> }

\* <<red score, blue score>>: red wins, blue wins, draw
Scores == { <<10, 0>>, <<0, 10>>, <<5, 5>> }

RawMatch(p, s, t) ==
    [red |-> p[1], blue |-> p[2], red_score |-> s[1], blue_score |-> s[2], started |-> t]

\* API match objects with every pairing, whose "started" is filled in by position
PlainMatches == { RawMatch(p, s, NoTime) : p \in Pairings, s \in Scores }

\* API match objects with any timestamp, or none
TimedMatches ==
    { RawMatch(p, s, t) : p \in OrderPairings, s \in Scores, t \in {NoTime} \cup (1..MaxTime) }

\* what the divisions of the season's events return, in the order fetched:
\* either already chronological, or in any order of time
ApiLogs ==
    UNION { { [k \in 1..n |-> [f[k] EXCEPT !.started = k]] : f \in [1..n -> PlainMatches] }
            \cup [1..n -> TimedMatches] : n \in 0..MaxMatches }

\* what the teams endpoint returns: the "number" of each row, "" when missing
ApiRosters == { << >>, <<"A", "", Benched>> }

\* one row of a skills endpoint
Attempt(t, type, score) == [team |-> t, type |-> type, score |-> score]

\* the rows of the season every cycle of the rating pipeline is given
SeasonSkills == << Attempt("A", "driver", 7), Attempt("C", "programming", 4) >>

\* what the skills endpoints return, in the order fetched: no row at all, one
\* discipline of one team, several attempts and a row without team
ApiSkills ==
    { << >>,
      SeasonSkills,
      << Attempt("B", "driver", 3), Attempt("", "driver", 9), Attempt("B", "driver", 8),
         Attempt("B", "programming", 5), Attempt("B", "driver", 6) >> }

\* the division whose matches endpoint returns the k-th match object
DivisionOf(k) == IF k = 1 THEN "division1" ELSE "division2"

\* what can fail in a cycle: the season, teams or events requests ("api"),
\* the matches requests of a division, the skills requests, the write of
\* rankings/index.html
Faults == {"api", "division1", "division2", "skills", "html"}

\* a cycle without failure, and the cycles in which one thing fails
FaultSets == { {} } \cup { {f} : f \in Faults }

\* ------------------------------------------------------------------ state
VARIABLES
    pc,          \* position in run_once / compute_elo_sos
    api_teams,   \* rows of the teams endpoint
    api_matches, \* match objects of the matches endpoints, in fetch order
    teams,       \* fetch_teams' result
    matches,     \* fetch_matches' result: the rows of the DataFrame, in order
    idx,         \* number of rows compute_elo_sos has iterated over
    elo,         \* defaultdict team -> rating
    opponents,   \* defaultdict team -> list of opponents
    sos,         \* dict team -> schedule strength
    elo_sos,     \* compute_elo_sos' result: set of rows
    table,       \* run_once's df: the rows to publish
    csv,         \* content of dashboard_data.csv
    trace,       \* history: the pairwise updates applied, in order
    pre_elo,     \* history: elo before the row last iterated over
    pre_opp,     \* history: opponents before the row last iterated over
    api_skills,  \* rows of the skills endpoints, in fetch order
    faults,      \* the requests and file operations that fail in this cycle
    skills,      \* fetch_skills' result: the rows of the DataFrame
    html,        \* the table rankings/index.html shows
    exc,         \* the exception run_once has raised, "" for none
    seen,        \* the table the dashboard loaded last
    loop,        \* args.loop
    cycles,      \* history: calls of run_once so far, counted up to 2
    logged,      \* history: the failure of the last cycle was logged by the loop
    first,       \* history: what the first of two calls of compute_elo_sos returned
    attempt,     \* _get's loop variable
    replies      \* history: what the server answered to the requests of a _get call

vars == <<pc, api_teams, api_matches, teams, matches, idx, elo, opponents, sos,
          elo_sos, table, csv, trace, pre_elo, pre_opp, api_skills, faults, skills,
          html, exc, seen, loop, cycles, logged, first, attempt, replies>>

\* ------------------------------------------------------------ dictionaries
EmptyDict == [t \in {} |-> 0]

\* d[k] = v
Put(d, k, v) == [t \in DOMAIN d \cup {k} |-> IF t = k THEN v ELSE d[t]]

\* elo[t] of the defaultdict(lambda: float(INITIAL_ELO)): value read
EloOf(d, t) == IF t \in DOMAIN d THEN d[t] ELSE Baseline

\* opponents[t] of the defaultdict(list): value read
OppOf(d, t) == IF t \in DOMAIN d THEN d[t] ELSE << >>

\* the teams of a roster
Members(roster) == { roster[k] : k \in 1..Len(roster) }

\* number of occurrences of x in a list
Count(list, x) == Cardinality({ k \in 1..Len(list) : list[k] = x })

\* --------------------------------------------------------- fetch_matches
\* _parse_match: the record of an API match object, << >> for None
ParseMatch(m, id) ==
    IF Len(m.red) = 0 \/ Len(m.blue) = 0
    THEN << >>
    ELSE << [match_id |-> id, started_at |-> m.started,
             red_teams |-> m.red, blue_teams |-> m.blue,
             red_score |-> m.red_score, blue_score |-> m.blue_score] >>

RECURSIVE ParseAll(_, _, _)
\* the records of the first n match objects, in fetch order; a division whose
\* request raises NotFoundError or RuntimeError is skipped (continue)
ParseAll(ms, n, down) ==
    IF n = 0
    THEN << >>
    ELSE ParseAll(ms, n - 1, down)
         \o (IF DivisionOf(n) \in down THEN << >> ELSE ParseMatch(ms[n], n))

\* pd.to_datetime(..., errors="coerce") of one "started" value
ToDatetime(t) == IF t >= 1 THEN t ELSE NaT

Coerce(recs) == [k \in 1..Len(recs) |-> [recs[k] EXCEPT !.started_at = ToDatetime(@)]]

\* p is an order sort_values("started_at") can produce: ascending timestamps,
\* tied timestamps in any order (the sort is not stable), NaT rows last and
\* in their original order
IsSortOrder(recs, p) ==
    \A i, j \in 1..Len(recs) :
        i < j =>
            LET x == recs[p[i]].started_at
                y == recs[p[j]].started_at
            IN  IF x = NaT THEN y = NaT /\ p[i] < p[j] ELSE y = NaT \/ x <= y

Permutations1(n) == { p \in [1..n -> 1..n] : \A i, j \in 1..n : p[i] = p[j] => i = j }

\* variant: the sorted frame is dropped and the records stay in fetch order
SortValuesNotApplied(recs) == { recs }

\* the DataFrames df.sort_values("started_at").reset_index(drop=True) can return
SortValues(recs) ==
    { [k \in 1..Len(recs) |-> recs[p[k]]] : p \in { q \in Permutations1(Len(recs)) : IsSortOrder(recs, q) } }

\* the DataFrames fetch_matches can return for the match objects ms, when the
\* requests of the divisions in down fail
FetchMatchesResult(ms, down) ==
    LET records == ParseAll(ms, Len(ms), down)
    IN  IF Len(records) = 0 THEN { << >> } ELSE SortValues(Coerce(records))

\* ------------------------------------------------------------------- _get
max_attempts == 8

\* what a request can meet: a page, 429 Too Many Requests, another 4xx, a 5xx
\* (raise_for_status raises a RequestException) and a timeout (a
\* RequestException of requests.get)
Statuses == {"200", "429", "404", "500", "timeout"}

\* ----------------------------------------------------------- fetch_skills
Max(a, b) == IF a >= b THEN a ELSE b

\* variant: the score of the latest attempt replaces the one kept
BestStepLatest(best, r) ==
    IF r.team = ""
    THEN best
    ELSE LET cur == IF r.team \in DOMAIN best
                    THEN best[r.team]
                    ELSE [driver_skills |-> 0, programming_skills |-> 0]
         IN  Put(best, r.team,
                 IF r.type = "driver"
                 THEN [cur EXCEPT !.driver_skills = r.score]
                 ELSE IF r.type = "programming"
                      THEN [cur EXCEPT !.programming_skills = r.score]
                      ELSE cur)

\* the body of the loop over the rows of a skills endpoint
BestStep(best, r) ==
    IF r.team = ""
    THEN best
    ELSE LET cur == IF r.team \in DOMAIN best
                    THEN best[r.team]
                    ELSE [driver_skills |-> 0, programming_skills |-> 0]
         IN  Put(best, r.team,
                 IF r.type = "driver"
                 THEN [cur EXCEPT !.driver_skills = Max(@, r.score)]
                 ELSE IF r.type = "programming"
                      THEN [cur EXCEPT !.programming_skills = Max(@, r.score)]
                      ELSE cur)

RECURSIVE BestOf(_, _)
\* the dict best after the first n rows
BestOf(rows, n) == IF n = 0 THEN EmptyDict ELSE BestStep(BestOf(rows, n - 1), rows[n])

\* the DataFrame fetch_skills returns: one row per key of best; when the
\* skills requests fail every event is skipped and best stays empty.  A
\* DataFrame built from no row has no column either.
FetchSkillsResult(rows, down) ==
    LET best == IF "skills" \in down THEN EmptyDict ELSE BestOf(rows, Len(rows))
    IN  { [team_name |-> t, driver_skills |-> best[t].driver_skills,
           programming_skills |-> best[t].programming_skills] : t \in DOMAIN best }

\* ------------------------------------------------------- compute_elo_sos
\* variant: eb is recomputed from the ratings after elo[a] has moved
UpdatePairLateExpectation(st, a, b, draw, id) ==
    LET ea == Expected(EloOf(st.elo, b), EloOf(st.elo, a))
        sa == IF draw THEN ONE \div 2 ELSE ONE
        sb == IF draw THEN ONE \div 2 ELSE 0
        elo1 == Put(st.elo, a, EloOf(st.elo, a) + K_FACTOR * (sa - ea))
        eb == Expected(EloOf(elo1, a), EloOf(elo1, b))
        elo2 == Put(elo1, b, EloOf(elo1, b) + K_FACTOR * (sb - eb))
        opp1 == Put(st.opponents, a, Append(OppOf(st.opponents, a), b))
        opp2 == Put(opp1, b, Append(OppOf(opp1, b), a))
    IN  [elo |-> elo2, opponents |-> opp2,
         trace |-> Append(st.trace, [match |-> id, a |-> a, b |-> b,
                                     elo_a |-> elo2[a], elo_b |-> elo2[b]])]

\* variant: a draw is scored like a win of the first roster
UpdatePairDrawAsWin(st, a, b, draw, id) ==
    LET ea == Expected(EloOf(st.elo, b), EloOf(st.elo, a))
        eb == ONE - ea
        elo1 == Put(st.elo, a, EloOf(st.elo, a) + K_FACTOR * (ONE - ea))
        elo2 == Put(elo1, b, EloOf(elo1, b) + K_FACTOR * (0 - eb))
        opp1 == Put(st.opponents, a, Append(OppOf(st.opponents, a), b))
        opp2 == Put(opp1, b, Append(OppOf(opp1, b), a))
    IN  [elo |-> elo2, opponents |-> opp2,
         trace |-> Append(st.trace, [match |-> id, a |-> a, b |-> b,
                                     elo_a |-> elo2[a], elo_b |-> elo2[b]])]

\* variant: opponents are recorded for decided matches only
UpdatePairNoDrawOpponents(st, a, b, draw, id) ==
    LET ea == Expected(EloOf(st.elo, b), EloOf(st.elo, a))
        eb == ONE - ea
        sa == IF draw THEN ONE \div 2 ELSE ONE
        sb == IF draw THEN ONE \div 2 ELSE 0
        elo1 == Put(st.elo, a, EloOf(st.elo, a) + K_FACTOR * (sa - ea))
        elo2 == Put(elo1, b, EloOf(elo1, b) + K_FACTOR * (sb - eb))
        opp1 == Put(st.opponents, a, Append(OppOf(st.opponents, a), b))
        opp2 == Put(opp1, b, Append(OppOf(opp1, b), a))
    IN  [elo |-> elo2, opponents |-> IF draw THEN st.opponents ELSE opp2,
         trace |-> Append(st.trace, [match |-> id, a |-> a, b |-> b,
                                     elo_a |-> elo2[a], elo_b |-> elo2[b]])]

\* one pass of the body of update's inner loop, for the pair (a, b) of match id
\* variant: elo[b] is left as it was
UpdatePairWinnerOnly(st, a, b, draw, id) ==
    LET ea == Expected(EloOf(st.elo, b), EloOf(st.elo, a))
        sa == IF draw THEN ONE \div 2 ELSE ONE
        elo1 == Put(st.elo, a, EloOf(st.elo, a) + K_FACTOR * (sa - ea))
        elo2 == Put(elo1, b, EloOf(elo1, b))
        opp1 == Put(st.opponents, a, Append(OppOf(st.opponents, a), b))
        opp2 == Put(opp1, b, Append(OppOf(opp1, b), a))
    IN  [elo |-> elo2, opponents |-> opp2,
         trace |-> Append(st.trace, [match |-> id, a |-> a, b |-> b,
                                     elo_a |-> elo2[a], elo_b |-> elo2[b]])]

UpdatePair(st, a, b, draw, id) ==
    LET ea == Expected(EloOf(st.elo, b), EloOf(st.elo, a))
        eb == ONE - ea
        sa == IF draw THEN ONE \div 2 ELSE ONE
        sb == IF draw THEN ONE \div 2 ELSE 0
        elo1 == Put(st.elo, a, EloOf(st.elo, a) + K_FACTOR * (sa - ea))
        elo2 == Put(elo1, b, EloOf(elo1, b) + K_FACTOR * (sb - eb))
        opp1 == Put(st.opponents, a, Append(OppOf(st.opponents, a), b))
        opp2 == Put(opp1, b, Append(OppOf(opp1, b), a))
    IN  [elo |-> elo2, opponents |-> opp2,
         trace |-> Append(st.trace, [match |-> id, a |-> a, b |-> b,
                                     elo_a |-> elo2[a], elo_b |-> elo2[b]])]

RECURSIVE UpdateFrom(_, _, _, _, _, _)
\* update(winner_teams, loser_teams, draw): the first n passes of the nested loops
UpdateFrom(st, winner_teams, loser_teams, draw, id, n) ==
    IF n = 0 THEN st
    ELSE UpdatePair(UpdateFrom(st, winner_teams, loser_teams, draw, id, n - 1),
                    winner_teams[((n - 1) \div Len(loser_teams)) + 1],
                    loser_teams[((n - 1) % Len(loser_teams)) + 1],
                    draw, id)

Update(st, winner_teams, loser_teams, draw, id) ==
    UpdateFrom(st, winner_teams, loser_teams, draw, id,
               Len(winner_teams) * Len(loser_teams))

\* variant: a blue win is passed to update with red as the winners
RowStepRedFirst(st, row) ==
    IF Len(row.red_teams) = 0 \/ Len(row.blue_teams) = 0 THEN st
    ELSE IF row.red_score > row.blue_score
         THEN Update(st, row.red_teams, row.blue_teams, FALSE, row.match_id)
    ELSE IF row.blue_score > row.red_score
         THEN Update(st, row.red_teams, row.blue_teams, FALSE, row.match_id)
    ELSE Update(st, row.red_teams, row.blue_teams, TRUE, row.match_id)

\* variant: the teams of a row are seeded in the rating map before the row is checked
RowStepSeedFirst(st, row) ==
    LET listed == Members(row.red_teams) \cup Members(row.blue_teams)
        seeded == [st EXCEPT !.elo = [t \in DOMAIN st.elo \cup listed |-> EloOf(st.elo, t)]]
    IN  IF Len(row.red_teams) = 0 \/ Len(row.blue_teams) = 0 THEN seeded
        ELSE IF row.red_score > row.blue_score
             THEN Update(seeded, row.red_teams, row.blue_teams, FALSE, row.match_id)
        ELSE IF row.blue_score > row.red_score
             THEN Update(seeded, row.blue_teams, row.red_teams, FALSE, row.match_id)
        ELSE Update(seeded, row.red_teams, row.blue_teams, TRUE, row.match_id)

\* the body of the loop over matches_df.iterrows(), for one row
\* variant: equal scores are classified as a win of red
RowStepDrawToRed(st, row) ==
    IF Len(row.red_teams) = 0 \/ Len(row.blue_teams) = 0
    THEN st
    ELSE IF row.red_score >= row.blue_score
         THEN Update(st, row.red_teams, row.blue_teams, FALSE, row.match_id)
         ELSE Update(st, row.blue_teams, row.red_teams, FALSE, row.match_id)

RowStep(st, row) ==
    IF Len(row.red_teams) = 0 \/ Len(row.blue_teams) = 0 THEN st
    ELSE IF row.red_score > row.blue_score
         THEN Update(st, row.red_teams, row.blue_teams, FALSE, row.match_id)
    ELSE IF row.blue_score > row.red_score
         THEN Update(st, row.blue_teams, row.red_teams, FALSE, row.match_id)
    ELSE Update(st, row.red_teams, row.blue_teams, TRUE, row.match_id)

RECURSIVE SumElo(_, _, _)
\* sum(elo[o] for o in opps), over the first n opponents
SumElo(d, opps, n) == IF n = 0 THEN 0 ELSE SumElo(d, opps, n - 1) + EloOf(d, opps[n])

RECURSIVE Distinct(_)
\* a list without its repeats
Distinct(list) ==
    IF Len(list) = 0 THEN << >>
    ELSE LET head == Distinct(SubSeq(list, 1, Len(list) - 1))
         IN  IF list[Len(list)] \in Members(head) THEN head ELSE Append(head, list[Len(list)])

\* variant: the mean is taken over the distinct opponents
SosOfDistinct(d, opps) ==
    IF Len(opps) > 0
    THEN [num |-> SumElo(d, Distinct(opps), Len(Distinct(opps))), den |-> Len(Distinct(opps))]
    ELSE [num |-> Baseline, den |-> 1]

\* sos[team] of the "compute SoS" loop: the quotient sum / len, kept exact
SosOf(d, opps) ==
    IF Len(opps) > 0 THEN [num |-> SumElo(d, opps, Len(opps)), den |-> Len(opps)]
    ELSE [num |-> Baseline, den |-> 1]

\* the sos dict after the loop over opponents.items()
ComputeSos(d, opp) == [t \in DOMAIN opp |-> SosOf(d, opp[t])]

\* variant: a team without an entry gets 0
SosGetZero(s, t) == IF t \in DOMAIN s THEN s[t] ELSE [num |-> 0, den |-> 1]

\* sos.get(t, INITIAL_ELO)
SosGet(s, t) == IF t \in DOMAIN s THEN s[t] ELSE [num |-> Baseline, den |-> 1]

\* round(q, 4) of a quotient of ratings: units of 10^-4
Round4(q) == RoundDiv(q.num, q.den)

\* the rows of the returned DataFrame
Records(d, s) ==
    { [team_name |-> t, elo |-> Round2(d[t]),
       strength_of_schedule |-> Round4(SosGet(s, t))] : t \in DOMAIN d }

\* ---------------------------------------------------------------- run_once
\* the missing value of a left join
NaN == -1

\* the value of column col the left join gives the row of team t
JoinValue(frame, t, col) ==
    IF \E s \in frame : s.team_name = t
    THEN (CHOOSE s \in frame : s.team_name = t)[col]
    ELSE NaN

\* elo_sos.merge(skills, on="team_name", how="left")
LeftJoin(rows, frame) ==
    { [team_name |-> r.team_name, elo |-> r.elo,
       strength_of_schedule |-> r.strength_of_schedule,
       driver_skills |-> JoinValue(frame, r.team_name, "driver_skills"),
       programming_skills |-> JoinValue(frame, r.team_name, "programming_skills")]
      : r \in rows }

\* variant: the missing values are left in the column
FillNaNotApplied(x) == x

\* .fillna(0).astype(int) of one value
FillNa(x) == IF x = NaN THEN 0 ELSE x

\* the merge and the two fillna lines
MergeSkills(rows, frame) ==
    { [r EXCEPT !.driver_skills = FillNa(@), !.programming_skills = FillNa(@)]
      : r \in LeftJoin(rows, frame) }

\* the exclusion filter: the rows kept
KeepRow(r) == ~(r.elo = Baseline /\ r.strength_of_schedule = Baseline)

SetMin(S) == CHOOSE x \in S : \A y \in S : x <= y
SetMax(S) == CHOOSE x \in S : \A y \in S : x >= y

\* variant: offset 0.50 and width 0.30
RescaleSwapped(v, raw_min, raw_max) ==
    5000 + RoundDiv(((v - raw_min) \div 100) * 3000, (raw_max - raw_min) \div 100)

\* (0.30 + (v - raw_min) / (raw_max - raw_min) * 0.50).round(4), in units of 10^-4
\* (the quotient times 5000 is formed digit by digit, within 32-bit integers)
Rescale(v, raw_min, raw_max) ==
    LET range == raw_max - raw_min
        a == (v - raw_min) * 50
        b == (a % range) * 10
    IN  3000 + (a \div range) * 100 + (b \div range) * 10 + RoundDiv((b % range) * 10, range)

\* variant: a column without spread is published as 0.30
NormaliseFlat(rows) ==
    LET col == { r.strength_of_schedule : r \in rows }
    IN  IF Cardinality(rows) > 1 /\ SetMax(col) > SetMin(col)
        THEN { [r EXCEPT !.strength_of_schedule = Rescale(@, SetMin(col), SetMax(col))]
               : r \in rows }
        ELSE { [r EXCEPT !.strength_of_schedule = 3000] : r \in rows }

\* the normalisation of the strength_of_schedule column
Normalise(rows) ==
    LET col == { r.strength_of_schedule : r \in rows }
    IN  IF Cardinality(rows) > 1 /\ SetMax(col) > SetMin(col)
        THEN { [r EXCEPT !.strength_of_schedule = Rescale(@, SetMin(col), SetMax(col))]
               : r \in rows }
        ELSE rows

\* the table a cycle publishes for the rows compute_elo_sos returned
Assemble(rows) == Normalise({ r \in rows : KeepRow(r) })

\* the table published by an earlier cycle
PreviousCsv ==
    { [team_name |-> "Z", elo |-> Baseline, strength_of_schedule |-> 3000,
       driver_skills |-> 0, programming_skills |-> 0] }

\* ----------------------------------------------------------------- actions
engine == <<idx, elo, opponents, sos, elo_sos, trace, pre_elo, pre_opp>>
answers == <<api_teams, api_matches, api_skills, faults>>
main == <<loop, cycles, logged>>
http == <<attempt, replies>>

\* get_vurc_season_id, fetch_teams and the events request: an exception of
\* theirs is not caught in run_once
FetchTeams ==
    /\ pc = "fetch_teams"
    /\ IF "api" \in faults
       THEN /\ pc' = "raised"
            /\ exc' = "RuntimeError"
            /\ UNCHANGED teams
       ELSE /\ teams' = SelectSeq(api_teams, LAMBDA number : number # "")
            /\ pc' = "fetch_matches"
            /\ UNCHANGED exc
    /\ UNCHANGED <<answers, matches, engine, skills, table, csv, html, seen, main, first, http>>

FetchMatches ==
    /\ pc = "fetch_matches"
    /\ matches' \in FetchMatchesResult(api_matches, faults)
    /\ pc' = "fetch_skills"
    /\ UNCHANGED <<answers, teams, engine, skills, table, csv, html, exc, seen, main, first, http>>

FetchSkills ==
    /\ pc = "fetch_skills"
    /\ skills' = FetchSkillsResult(api_skills, faults)
    /\ pc' = "check_empty"
    /\ UNCHANGED <<answers, teams, matches, engine, table, csv, html, exc, seen, main, first, http>>

\* variant: with no match the empty table is published
SkipWriteEmptyTable ==
    /\ pc = "check_empty"
    /\ Len(matches) = 0
    /\ csv' = {}
    /\ html' = {}
    /\ pc' = "done"
    /\ UNCHANGED <<answers, teams, matches, engine, skills, table, exc, seen, main, first, http>>

\* matches.empty: return without writing
SkipWrite ==
    /\ pc = "check_empty"
    /\ Len(matches) = 0
    /\ pc' = "done"
    /\ UNCHANGED <<answers, teams, matches, engine, skills, table, csv, html, exc, seen,
                   main, first, http>>

CallCompute ==
    /\ pc = "check_empty"
    /\ Len(matches) > 0
    /\ pc' = "compute_elo_sos"
    /\ UNCHANGED <<answers, teams, matches, engine, skills, table, csv, html, exc, seen,
                   main, first, http>>

\* variant: the dicts are created once and kept from call to call
SeedRosterKeepsDicts ==
    /\ pc = "compute_elo_sos"
    /\ elo' = [t \in DOMAIN elo \cup Members(teams) |-> EloOf(elo, t)]
    /\ opponents' = opponents
    /\ sos' = sos
    /\ idx' = 0
    /\ trace' = << >>
    /\ pre_elo' = [t \in DOMAIN elo \cup Members(teams) |-> EloOf(elo, t)]
    /\ pre_opp' = opponents
    /\ pc' = "iterrows"
    /\ UNCHANGED <<answers, teams, matches, elo_sos, skills, table, csv, html, exc, seen,
                   main, first, http>>

\* compute_elo_sos, up to the loop over the rows: fresh dicts, roster seeded
SeedRoster ==
    /\ pc = "compute_elo_sos"
    /\ elo' = [t \in Members(teams) |-> Baseline]
    /\ opponents' = EmptyDict
    /\ sos' = EmptyDict
    /\ idx' = 0
    /\ trace' = << >>
    /\ pre_elo' = [t \in Members(teams) |-> Baseline]
    /\ pre_opp' = EmptyDict
    /\ pc' = "iterrows"
    /\ UNCHANGED <<answers, teams, matches, elo_sos, skills, table, csv, html, exc, seen,
                   main, first, http>>

\* one iteration of the loop over matches_df.iterrows()
IterRow ==
    /\ pc = "iterrows"
    /\ idx < Len(matches)
    /\ LET st == RowStep([elo |-> elo, opponents |-> opponents, trace |-> trace],
                          matches[idx + 1])
       IN  /\ elo' = st.elo
           /\ opponents' = st.opponents
           /\ trace' = st.trace
    /\ pre_elo' = elo
    /\ pre_opp' = opponents
    /\ idx' = idx + 1
    /\ UNCHANGED <<pc, answers, teams, matches, sos, elo_sos, skills, table, csv, html,
                   exc, seen, main, first, http>>

\* the loop that computes SoS, after the last row
SosPass ==
    /\ pc = "iterrows"
    /\ idx = Len(matches)
    /\ sos' = ComputeSos(elo, opponents)
    /\ pc' = "records"
    /\ UNCHANGED <<answers, teams, matches, idx, elo, opponents, elo_sos, skills, table,
                   csv, html, exc, seen, main, first, trace, pre_elo, pre_opp, http>>

\* the rows are built and returned
ReturnRecords ==
    /\ pc = "records"
    /\ elo_sos' = Records(elo, sos)
    /\ pc' = "returned"
    /\ UNCHANGED <<answers, teams, matches, idx, elo, opponents, sos, skills, table,
                   csv, html, exc, seen, main, first, trace, pre_elo, pre_opp, http>>

\* run_once after compute_elo_sos: merge, filter and normalise; the merge
\* raises KeyError when the skills DataFrame has no column "team_name"
AssembleTable ==
    /\ pc = "returned"
    /\ IF skills = {}
       THEN /\ pc' = "raised"
            /\ exc' = "KeyError"
            /\ UNCHANGED table
       ELSE /\ table' = Assemble(MergeSkills(elo_sos, skills))
            /\ pc' = "to_csv"
            /\ UNCHANGED exc
    /\ UNCHANGED <<answers, teams, matches, engine, skills, csv, html, seen, main, first, http>>

\* df.to_csv(OUTPUT_CSV): the file is opened for writing, which truncates it
OpenCsv ==
    /\ pc = "to_csv"
    /\ csv' = {}
    /\ pc' = IF table = {} THEN "generate_html" ELSE "write_rows"
    /\ UNCHANGED <<answers, teams, matches, engine, skills, table, html, exc, seen, main,
                   first, http>>

\* df.to_csv(OUTPUT_CSV): the next row of the frame reaches the file; after
\* the last one the file is closed
WriteRow ==
    /\ pc = "write_rows"
    /\ csv' = csv \cup { CHOOSE r \in table \ csv : TRUE }
    /\ pc' = IF csv' = table THEN "generate_html" ELSE "write_rows"
    /\ UNCHANGED <<answers, teams, matches, engine, skills, table, html, exc, seen, main,
                   first, http>>

\* generate_interactive_html(df): rankings/index.html is rewritten from df
GenerateHtml ==
    /\ pc = "generate_html"
    /\ IF "html" \in faults
       THEN /\ pc' = "raised"
            /\ exc' = "OSError"
            /\ UNCHANGED html
       ELSE /\ html' = table
            /\ pc' = "done"
            /\ UNCHANGED exc
    /\ UNCHANGED <<answers, teams, matches, engine, skills, table, csv, seen, main, first, http>>

\* app.py load_data, on a tick of the dashboard's interval: pd.read_csv of
\* whatever dashboard_data.csv holds at that moment
LoadData ==
    /\ seen' = csv
    /\ UNCHANGED <<pc, answers, teams, matches, engine, skills, table, csv, html, exc,
                   main, first, http>>

\* compute_elo_sos is called a second time with the same arguments
Recompute ==
    /\ pc = "returned"
    /\ first = << >>
    /\ first' = << [elo |-> elo, sos |-> sos, records |-> elo_sos] >>
    /\ pc' = "compute_elo_sos"
    /\ UNCHANGED <<answers, teams, matches, engine, skills, table, csv, html, exc, seen,
                   main, http>>

\* one iteration of _get's loop over range(max_attempts): a request and what
\* follows its answer
GetAttempt ==
    /\ pc = "_get"
    /\ attempt < max_attempts
    /\ \E status \in Statuses :
          /\ replies' = Append(replies, status)
          /\ IF status = "200"
             THEN pc' = "got" /\ UNCHANGED <<attempt, exc>>
             ELSE IF status = "404"
                  THEN pc' = "raised" /\ exc' = "NotFoundError" /\ UNCHANGED attempt
                  ELSE attempt' = attempt + 1 /\ UNCHANGED <<pc, exc>>
    /\ UNCHANGED <<answers, teams, matches, engine, skills, table, csv, html, seen, main,
                   first>>

\* the loop has made its last iteration: raise RuntimeError
GetGiveUp ==
    /\ pc = "_get"
    /\ attempt = max_attempts
    /\ pc' = "raised"
    /\ exc' = "RuntimeError"
    /\ UNCHANGED <<answers, teams, matches, engine, skills, table, csv, html, seen, main,
                   first, http>>

\* variant of the loop: try without except
SleepWithoutCatch ==
    /\ loop > 0
    /\ pc \in {"done", "raised"}
    /\ pc' = IF pc = "raised" THEN "traceback" ELSE "sleep"
    /\ UNCHANGED <<answers, teams, matches, engine, skills, table, csv, html, exc, seen,
                   loop, cycles, logged, first, http>>

\* --loop N, N > 0: run_once has returned, or raised an Exception that is
\* caught and logged; time.sleep(args.loop)
CatchAndSleep ==
    /\ loop > 0
    /\ pc \in {"done", "raised"}
    /\ logged' = (pc = "raised")
    /\ pc' = "sleep"
    /\ UNCHANGED <<answers, teams, matches, engine, skills, table, csv, html, exc, seen,
                   loop, cycles, first, http>>

\* without --loop: run_once has returned and the process ends
ExitMain ==
    /\ loop = 0
    /\ pc = "done"
    /\ pc' = "exited"
    /\ UNCHANGED <<answers, teams, matches, engine, skills, table, csv, html, exc, seen,
                   main, first, http>>

\* without --loop: the exception of run_once is not caught and ends the process
Propagate ==
    /\ loop = 0
    /\ pc = "raised"
    /\ pc' = "traceback"
    /\ UNCHANGED <<answers, teams, matches, engine, skills, table, csv, html, exc, seen,
                   main, first, http>>

\* ---------------------------------------------------------- specifications
\* the other locals of run_once and compute_elo_sos before a call
Locals ==
    /\ table = {}
    /\ exc = ""
    /\ idx = 0
    /\ elo = EmptyDict
    /\ opponents = EmptyDict
    /\ sos = EmptyDict
    /\ trace = << >>
    /\ pre_elo = EmptyDict
    /\ pre_opp = EmptyDict
    /\ first = << >>

\* the files and the dashboard before the first cycle of a process
Fresh ==
    /\ csv = PreviousCsv
    /\ html = PreviousCsv
    /\ seen = PreviousCsv
    /\ cycles = 1
    /\ logged = FALSE
    /\ attempt = 0
    /\ replies = << >>

\* one refresh cycle of the rating pipeline, for any answer of the teams and
\* matches endpoints
Init ==
    /\ pc = "fetch_teams"
    /\ api_teams \in ApiRosters
    /\ api_matches \in ApiLogs
    /\ api_skills = SeasonSkills
    /\ faults = {}
    /\ loop = 0
    /\ teams = << >>
    /\ matches = << >>
    /\ skills = {}
    /\ elo_sos = {}
    /\ Locals
    /\ Fresh

Next ==
    \/ FetchTeams
    \/ FetchMatches
    \/ FetchSkills
    \/ SkipWrite
    \/ CallCompute
    \/ SeedRoster
    \/ IterRow
    \/ SosPass
    \/ ReturnRecords
    \/ AssembleTable
    \/ OpenCsv
    \/ WriteRow
    \/ GenerateHtml

Spec == Init /\ [][Next]_vars

\* the rows compute_elo_sos can be called with: any roster pair, empty ones too
EngineRow(m, id) ==
    [match_id |-> id, started_at |-> id, red_teams |-> m.red, blue_teams |-> m.blue,
     red_score |-> m.red_score, blue_score |-> m.blue_score]

EngineLogs ==
    UNION { { [k \in 1..n |-> EngineRow(f[k], k)] : f \in [1..n -> PlainMatches] }
            : n \in 0..MaxMatches }

EngineRosters == { << >>, <<"A", Benched>> }

\* compute_elo_sos alone, called on any DataFrame and roster
InitEngine ==
    /\ pc = "compute_elo_sos"
    /\ api_teams = << >>
    /\ api_matches = << >>
    /\ api_skills = << >>
    /\ faults = {}
    /\ loop = 0
    /\ teams \in EngineRosters
    /\ matches \in EngineLogs
    /\ skills = {}
    /\ elo_sos = {}
    /\ Locals
    /\ Fresh

NextEngine ==
    \/ SeedRoster
    \/ IterRow
    \/ SosPass
    \/ ReturnRecords

SpecEngine == InitEngine /\ [][NextEngine]_vars

\* match objects of a cycle whose requests can fail: a win, a draw between
\* unrated teams, a two-team alliance match and a match without red roster
CycleMatches ==
    { RawMatch(<<(<<"A">>), (<<"B">>)>>, <<10, 0>>, NoTime),
      RawMatch(<<(<<"C">>), (<<"D">>)>>, <<5, 5>>, NoTime),
      RawMatch(<<(<<"A", "B">>), (<<"C", "D">>)>>, <<0, 10>>, NoTime),
      RawMatch(<<(<< >>), (<<"A">>)>>, <<10, 0>>, NoTime) }

CycleLogs ==
    UNION { { [k \in 1..n |-> [f[k] EXCEPT !.started = k]] : f \in [1..n -> CycleMatches] }
            : n \in 0..MaxMatches }

\* one refresh cycle for any answer of the matches and skills endpoints, in
\* which a request or a file operation may fail, while the dashboard polls
\* dashboard_data.csv
InitCycle ==
    /\ pc = "fetch_teams"
    /\ api_teams = <<"A", "", Benched>>
    /\ api_matches \in CycleLogs
    /\ api_skills \in ApiSkills
    /\ faults \in FaultSets
    /\ loop = 0
    /\ teams = << >>
    /\ matches = << >>
    /\ skills = {}
    /\ elo_sos = {}
    /\ Locals
    /\ Fresh

NextCycle ==
    \/ FetchTeams
    \/ FetchMatches
    \/ FetchSkills
    \/ SkipWrite
    \/ CallCompute
    \/ SeedRoster
    \/ IterRow
    \/ SosPass
    \/ ReturnRecords
    \/ AssembleTable
    \/ OpenCsv
    \/ WriteRow
    \/ GenerateHtml
    \/ LoadData

SpecCycle == InitCycle /\ [][NextCycle]_vars

\* rows of the skills endpoints: two teams, both disciplines, a type that is
\* neither, scores with a missing one (0), and a row without team
SkillRows ==
    { Attempt(t, type, score) : t \in {"A", "B"}, type \in {"driver", "programming"},
                                score \in {0, 3, 7} }
    \cup { Attempt("A", "", 9), Attempt("", "driver", 9) }

\* the rows of all events in the order fetched, any order
SkillLogs == UNION { [1..n -> SkillRows] : n \in 0..MaxAttempts }

\* fetch_skills alone, on any rows
InitSkills ==
    /\ pc = "fetch_skills"
    /\ api_teams = << >>
    /\ api_matches = << >>
    /\ api_skills \in SkillLogs
    /\ faults = {}
    /\ loop = 0
    /\ teams = << >>
    /\ matches = << >>
    /\ skills = {}
    /\ elo_sos = {}
    /\ Locals
    /\ Fresh

NextSkills == FetchSkills

SpecSkills == InitSkills /\ [][NextSkills]_vars

\* one call of _get, against a server that answers anything
InitGet ==
    /\ pc = "_get"
    /\ api_teams = << >>
    /\ api_matches = << >>
    /\ api_skills = << >>
    /\ faults = {}
    /\ loop = 0
    /\ teams = << >>
    /\ matches = << >>
    /\ skills = {}
    /\ elo_sos = {}
    /\ Locals
    /\ Fresh

NextGet ==
    \/ GetAttempt
    \/ GetGiveUp

SpecGet == InitGet /\ [][NextGet]_vars

NextTwice ==
    \/ SeedRoster
    \/ IterRow
    \/ SosPass
    \/ ReturnRecords
    \/ Recompute

\* compute_elo_sos called twice on the same DataFrame and roster
SpecTwice == InitEngine /\ [][NextTwice]_vars

\* what the API answers to the cycles of a long-running process
MainLogs == { << >>, << RawMatch(<<(<<"A">>), (<<"B">>)>>, <<10, 0>>, 1) >> }
MainFaults == { {}, {"api"}, {"html"} }
LoopArgs == {0, 60}

\* --loop N: after the sleep the while loop calls run_once again, whose
\* locals are new and which gets the API's answers of that moment
StartCycle ==
    /\ pc = "sleep"
    /\ pc' = "fetch_teams"
    /\ cycles' = IF cycles < 2 THEN cycles + 1 ELSE cycles
    /\ api_matches' \in MainLogs
    /\ faults' \in MainFaults
    /\ teams' = << >>
    /\ matches' = << >>
    /\ skills' = {}
    /\ elo_sos' = {}
    /\ table' = {}
    /\ exc' = ""
    /\ idx' = 0
    /\ elo' = EmptyDict
    /\ opponents' = EmptyDict
    /\ sos' = EmptyDict
    /\ trace' = << >>
    /\ pre_elo' = EmptyDict
    /\ pre_opp' = EmptyDict
    /\ first' = << >>
    /\ UNCHANGED <<api_teams, api_skills, csv, html, seen, loop, logged, http>>

\* the command line: python data_fetcher.py [--loop N]
InitMain ==
    /\ pc = "fetch_teams"
    /\ api_teams = <<"A", "", Benched>>
    /\ api_matches \in MainLogs
    /\ api_skills = SeasonSkills
    /\ faults \in MainFaults
    /\ loop \in LoopArgs
    /\ teams = << >>
    /\ matches = << >>
    /\ skills = {}
    /\ elo_sos = {}
    /\ Locals
    /\ Fresh

NextMain ==
    \/ FetchTeams
    \/ FetchMatches
    \/ FetchSkills
    \/ SkipWrite
    \/ CallCompute
    \/ SeedRoster
    \/ IterRow
    \/ SosPass
    \/ ReturnRecords
    \/ AssembleTable
    \/ OpenCsv
    \/ WriteRow
    \/ GenerateHtml
    \/ CatchAndSleep
    \/ StartCycle
    \/ ExitMain
    \/ Propagate

\* the process keeps running: a step that can be taken is taken
SpecMain == InitMain /\ [][NextMain]_vars /\ WF_vars(NextMain)

\* ratings and schedule strengths compute_elo_sos can return for a team
RawElo == { Baseline, 1516 * ONE }
RawSos == { 1500 * ONE, 1550 * ONE, 1600 * ONE, 1700 * ONE }
RawTeams == {"A", "B", "C"}

\* the DataFrames compute_elo_sos can return: at most one row per team
RawTables ==
    { { [team_name |-> t, elo |-> f[t][1], strength_of_schedule |-> f[t][2]]
        : t \in { u \in RawTeams : f[u] # << >> } }
      : f \in [RawTeams -> { << >> } \cup (RawElo \X RawSos)] }

\* the output assembly alone (run_once from the merge on), for any DataFrame
\* of compute_elo_sos and of fetch_skills
InitAssemble ==
    /\ pc = "returned"
    /\ api_teams = << >>
    /\ api_matches = << >>
    /\ api_skills = << >>
    /\ faults = {}
    /\ loop = 0
    /\ teams = << >>
    /\ matches = << >>
    /\ skills \in { FetchSkillsResult(rows, {}) : rows \in ApiSkills }
    /\ elo_sos \in RawTables
    /\ Locals
    /\ Fresh

NextAssemble ==
    \/ AssembleTable
    \/ OpenCsv
    \/ WriteRow
    \/ GenerateHtml

SpecAssemble == InitAssemble /\ [][NextAssemble]_vars

\* ----------------------------------------------------- vocabulary of claims
\* the row the loop has just iterated over (idx >= 1)
LastRow == matches[idx]

RowValid(row) == Len(row.red_teams) > 0 /\ Len(row.blue_teams) > 0
RowDecided(row) == row.red_score # row.blue_score
Higher(row) == IF row.red_score > row.blue_score THEN row.red_teams ELSE row.blue_teams
Lower(row) == IF row.red_score > row.blue_score THEN row.blue_teams ELSE row.red_teams
Listed(row) == Members(row.red_teams) \cup Members(row.blue_teams)

\* rating of t before and after the row last iterated over
Before(t) == EloOf(pre_elo, t)
After(t) == EloOf(elo, t)

\* a row has been applied and the state still shows its effect
RowApplied == pc \in {"iterrows", "records", "returned"} /\ idx >= 1

\* "started" of the match object a pairwise update belongs to
StartedOf(u) == api_matches[u.match].started

\* C1: within a cycle no pairwise update of a match with a later parsable
\* timestamp is applied before a pairwise update of a match with an earlier
\* one, whatever the order the match objects were fetched in.
C1_ChronologicalUpdates ==
    \A i, j \in 1..Len(trace) :
        (i < j /\ StartedOf(trace[i]) >= 1 /\ StartedOf(trace[j]) >= 1)
            => StartedOf(trace[i]) <= StartedOf(trace[j])

\* C1 witness: two valid matches fetched latest first, both applied
C1_Witness ==
    /\ pc = "done"
    /\ Len(api_matches) = 2
    /\ api_matches[1].started = 2
    /\ api_matches[2].started = 1
    /\ Len(trace) = 2
    /\ trace[1].match = 2
    /\ trace[2].match = 1

\* C2: after one decided 2v2 match whose four teams had the same rating, the
\* two winners have gained the same amount and the two losers have lost the
\* same amount.
C2_EqualDeltas ==
    (/\ RowApplied
     /\ Len(LastRow.red_teams) = 2
     /\ Len(LastRow.blue_teams) = 2
     /\ RowDecided(LastRow)
     /\ \A t, u \in Listed(LastRow) : Before(t) = Before(u))
    => /\ \A t, u \in Members(Higher(LastRow)) : After(t) - Before(t) = After(u) - Before(u)
       /\ \A t, u \in Members(Lower(LastRow)) : Before(t) - After(t) = Before(u) - After(u)

\* C3: after a valid match that one alliance won, every team of the
\* higher-scoring alliance is rated strictly higher than before the match and
\* every team of the other alliance strictly lower.
C3_WinnersGainLosersLose ==
    (RowApplied /\ RowValid(LastRow) /\ RowDecided(LastRow))
    => /\ \A t \in Members(Higher(LastRow)) : After(t) > Before(t)
       /\ \A t \in Members(Lower(LastRow)) : After(t) < Before(t)

\* C3 witness: a blue win of one team over two, all three with ratings moved
\* off the baseline by an earlier match
C3_Witness ==
    /\ RowApplied
    /\ idx = 2
    /\ LastRow.blue_score > LastRow.red_score
    /\ Len(LastRow.red_teams) = 2
    /\ Len(LastRow.blue_teams) = 1
    /\ \A t \in Listed(LastRow) : Before(t) # Baseline
    /\ \E t, u \in Listed(LastRow) : Before(t) < Before(u)

\* C4: a draw between two single-team alliances of equal rating leaves both
\* ratings as they were and appends each team to the other's opponent list.
C4_EqualDrawKeepsRatings ==
    (/\ RowApplied
     /\ Len(LastRow.red_teams) = 1
     /\ Len(LastRow.blue_teams) = 1
     /\ ~RowDecided(LastRow)
     /\ Before(LastRow.red_teams[1]) = Before(LastRow.blue_teams[1]))
    => LET r == LastRow.red_teams[1]
           b == LastRow.blue_teams[1]
       IN  /\ After(r) = Before(r)
           /\ After(b) = Before(b)
           /\ OppOf(opponents, r) = Append(OppOf(pre_opp, r), b)
           /\ OppOf(opponents, b) = Append(OppOf(pre_opp, b), r)

\* C4 witness: such a draw as the second match of a log, the two teams
\* having met before
C4_Witness ==
    /\ RowApplied
    /\ idx = 2
    /\ Len(LastRow.red_teams) = 1
    /\ Len(LastRow.blue_teams) = 1
    /\ ~RowDecided(LastRow)
    /\ Before(LastRow.red_teams[1]) = Before(LastRow.blue_teams[1])
    /\ Len(OppOf(pre_opp, LastRow.red_teams[1])) = 1
    /\ Len(OppOf(opponents, LastRow.red_teams[1])) = 2

\* C5: a log of one match between two fresh teams, won by one of them, returns
\* rating 1516.0 and schedule strength 1484.0 for the winner and rating
\* 1484.0 and schedule strength 1516.0 for the loser.
C5_SingleMatchValues ==
    (/\ pc = "returned"
     /\ Len(matches) = 1
     /\ Len(matches[1].red_teams) = 1
     /\ Len(matches[1].blue_teams) = 1
     /\ RowDecided(matches[1]))
    => /\ [team_name |-> Higher(matches[1])[1], elo |-> 1516 * ONE,
            strength_of_schedule |-> 1484 * ONE] \in elo_sos
       /\ [team_name |-> Lower(matches[1])[1], elo |-> 1484 * ONE,
            strength_of_schedule |-> 1516 * ONE] \in elo_sos
       /\ \A r \in elo_sos : r.team_name \in Listed(matches[1]) \cup Members(teams)

\* C5 witness: A beats B 10-0 in the only match
C5_Witness ==
    /\ pc = "returned"
    /\ Len(matches) = 1
    /\ matches[1].red_teams = <<"A">>
    /\ matches[1].blue_teams = <<"B">>
    /\ matches[1].red_score = 10
    /\ matches[1].blue_score = 0
    /\ \E r \in elo_sos : r.team_name = "A" /\ r.elo = 1516 * ONE

\* the season roster as the teams endpoint lists it
Roster == Members(api_teams) \ {""}

\* t is on a roster of a match object with two non-empty rosters
PlayedValid(t) ==
    \E k \in 1..Len(api_matches) :
        /\ Len(api_matches[k].red) > 0
        /\ Len(api_matches[k].blue) > 0
        /\ t \in Members(api_matches[k].red) \cup Members(api_matches[k].blue)

TeamNames(rows) == { r.team_name : r \in rows }

\* C6: a team of the season roster that is in no valid match of the log has
\* no row in the table a cycle assembles and publishes.
C6_NoRowForUnplayed ==
    \A t \in Roster : ~PlayedValid(t) => t \notin TeamNames(table) \cup TeamNames(csv)

\* C6 witness: a table with rows is published while the roster holds a team
\* that is in no match and a team that is only in a match without opponents
C6_Witness ==
    /\ pc = "done"
    /\ csv = table
    /\ csv # {}
    /\ Benched \in Roster
    /\ "A" \in Roster
    /\ ~PlayedValid("A")
    /\ \E k \in 1..Len(api_matches) : "A" \in Members(api_matches[k].blue)

\* C7: every team that took part in at least one valid match has a row in
\* the published table.
C7_EveryParticipantPublished ==
    (pc = "done" /\ Len(matches) > 0)
    => \A t \in Teams : PlayedValid(t) => t \in TeamNames(csv)

\* C8: a row with an empty roster leaves the rating map and the opponent
\* lists as they were, and no pairwise update is ever made for such a row.
C8_InvalidRowChangesNothing ==
    /\ (RowApplied /\ ~RowValid(LastRow)) => (elo = pre_elo /\ opponents = pre_opp)
    /\ \A k \in 1..Len(trace) : RowValid(matches[trace[k].match])

\* C8 witness: a row with an empty roster is iterated over after a valid
\* match, and it lists a team the rating map does not hold
C8_Witness ==
    /\ RowApplied
    /\ idx = 2
    /\ ~RowValid(LastRow)
    /\ Len(trace) > 0
    /\ \E t \in Listed(LastRow) : t \notin DOMAIN elo

\* C9: a valid match with rosters X and Y, won or drawn, makes |X| * |Y|
\* pairwise updates, and appends every team of Y once to the opponent list
\* of each team of X and every team of X once to that of each team of Y; so b
\* occurs in a's list as often as a occurs in b's.
C9_PairwiseOpponents ==
    /\ (RowApplied /\ RowValid(LastRow)) =>
          LET X == LastRow.red_teams
              Y == LastRow.blue_teams
          IN  /\ Cardinality({ k \in 1..Len(trace) : trace[k].match = LastRow.match_id })
                    = Len(X) * Len(Y)
              /\ \A x \in Members(X) :
                    /\ Len(OppOf(opponents, x)) = Len(OppOf(pre_opp, x)) + Len(Y)
                    /\ \A y \in Members(Y) :
                          Count(OppOf(opponents, x), y) = Count(OppOf(pre_opp, x), y) + 1
              /\ \A y \in Members(Y) :
                    /\ Len(OppOf(opponents, y)) = Len(OppOf(pre_opp, y)) + Len(X)
                    /\ \A x \in Members(X) :
                          Count(OppOf(opponents, y), x) = Count(OppOf(pre_opp, y), x) + 1
    /\ \A a, b \in Teams : Count(OppOf(opponents, a), b) = Count(OppOf(opponents, b), a)

\* C9 witness: a drawn match of two teams against one, after an earlier match
C9_Witness ==
    /\ RowApplied
    /\ idx = 2
    /\ RowValid(LastRow)
    /\ ~RowDecided(LastRow)
    /\ Len(LastRow.red_teams) + Len(LastRow.blue_teams) = 3
    /\ Len(trace) >= 3

RECURSIVE OpponentTotal(_, _)
\* the final ratings of the teams of S, each counted as often as t faced it
OpponentTotal(t, S) ==
    IF S = {} THEN 0
    ELSE LET u == CHOOSE v \in S : TRUE
         IN  Count(OppOf(opponents, t), u) * EloOf(elo, u) + OpponentTotal(t, S \ {u})

\* C10: schedule strength is absent while rows are still being applied; once
\* computed, it is for a team with opponents the sum of its opponents' final
\* ratings, repeats counted, over their number, and the returned row holds that
\* mean rounded to 4 decimals; a team without opponents gets the baseline.
C10_SosFromFinalRatings ==
    /\ pc = "iterrows" => sos = EmptyDict
    /\ pc \in {"records", "returned"} =>
          /\ DOMAIN sos = DOMAIN opponents
          /\ \A t \in DOMAIN sos :
                /\ sos[t].den = Len(opponents[t])
                /\ sos[t].den > 0
                /\ sos[t].num = OpponentTotal(t, Teams)
    /\ pc = "returned" =>
          /\ TeamNames(elo_sos) = DOMAIN elo
          /\ \A r \in elo_sos :
                LET n == Len(OppOf(opponents, r.team_name))
                IN  IF n > 0
                    THEN 2 * Abs(r.strength_of_schedule * n - OpponentTotal(r.team_name, Teams)) <= n
                    ELSE r.strength_of_schedule = Baseline

\* C10 witness: rows are returned for a log in which an opponent's rating
\* moved after it was faced, a team met the same opponent twice and a roster
\* team met nobody
C10_Witness ==
    /\ pc = "returned"
    /\ \E k \in 1..Len(trace) : trace[k].elo_b # elo[trace[k].b]
    /\ \E a, b \in Teams : Count(OppOf(opponents, a), b) = 2
    /\ \E r \in elo_sos : r.team_name = Benched /\ r.strength_of_schedule = Baseline

\* ------------------------------------------------------ the output assembly
\* the table has been assembled from elo_sos and skills
Assembled == pc \in {"to_csv", "write_rows", "generate_html", "done"}

\* the rows that pass the exclusion filter, with their raw schedule strength
Kept == { r \in MergeSkills(elo_sos, skills) : KeepRow(r) }
RawCol == { r.strength_of_schedule : r \in Kept }

\* the published schedule strength of a team with a row in the table
Published(t) == (CHOOSE r \in table : r.team_name = t).strength_of_schedule

\* C11: when more than one team remains and their raw schedule strengths are
\* not all equal, every remaining team is published with the value, to four
\* decimals, of the linear map of [raw min, raw max] onto [0.30, 0.80]: the
\* minimum is published as 0.30, the maximum as 0.80, no two teams change
\* their order, and raw values 1500, 1600, 1700 give 0.30, 0.55, 0.80.
C11_LinearRemap ==
    (Assembled /\ Cardinality(Kept) > 1 /\ SetMax(RawCol) > SetMin(RawCol))
    => LET lo == SetMin(RawCol)
           hi == SetMax(RawCol)
           R == (hi - lo) \div 100
       IN  /\ TeamNames(table) = TeamNames(Kept)
           /\ \A r \in Kept :
                  LET X == (r.strength_of_schedule - lo) \div 100
                      p == Published(r.team_name)
                  IN  /\ 2 * Abs((p - 3000) * R - 5000 * X) <= R
                      /\ r.strength_of_schedule = lo => p = 3000
                      /\ r.strength_of_schedule = hi => p = 8000
           /\ \A r1, r2 \in Kept :
                  r1.strength_of_schedule <= r2.strength_of_schedule
                  => Published(r1.team_name) <= Published(r2.team_name)
           /\ RawCol = { 1500 * ONE, 1600 * ONE, 1700 * ONE }
              => { r.strength_of_schedule : r \in table } = { 3000, 5500, 8000 }

\* C11 witness: three teams with raw 1500, 1600 and 1700 remain and are
\* published with 0.30, 0.55 and 0.80
C11_Witness ==
    /\ pc = "done"
    /\ Cardinality(Kept) = 3
    /\ RawCol = { 1500 * ONE, 1600 * ONE, 1700 * ONE }
    /\ { r.strength_of_schedule : r \in csv } = { 3000, 5500, 8000 }

\* C12: when exactly one team remains, or all remaining teams have the same
\* raw schedule strength, the column is not rescaled: the table holds the
\* remaining rows with their raw values (and nothing is divided by zero).
C12_NoSpreadKeepsRaw ==
    (Assembled /\ Kept # {} /\ (Cardinality(Kept) = 1 \/ SetMax(RawCol) = SetMin(RawCol)))
    => table = Kept

\* C12 witness: two teams with the same raw schedule strength 1600 are
\* published with 1600
C12_Witness ==
    /\ pc = "done"
    /\ Cardinality(Kept) = 2
    /\ RawCol = { 1600 * ONE }
    /\ Cardinality(csv) = 2
    /\ \A r \in csv : r.strength_of_schedule = 1600 * ONE

\* ------------------------------------------------------------ a whole cycle
\* the skills endpoints hold an attempt of team t in the discipline
Attempted(t, type) ==
    \E k \in 1..Len(api_skills) : api_skills[k].team = t /\ api_skills[k].type = type

\* C13: every row of the table, of the CSV and of the page has natural
\* numbers as driver and programming values, and a team without attempt in a
\* discipline (no attempt at all, or attempts in the other discipline only)
\* has 0 there.
C13_SkillsAreIntegersDefaultZero ==
    \A r \in table \cup csv \cup html :
        /\ r.driver_skills \in Nat
        /\ r.programming_skills \in Nat
        /\ ~Attempted(r.team_name, "driver") => r.driver_skills = 0
        /\ ~Attempted(r.team_name, "programming") => r.programming_skills = 0

\* C13 witness: a published table with a team that has driver attempts only
\* and a team without any attempt
C13_Witness ==
    /\ pc = "done"
    /\ html = csv
    /\ \E r \in csv : r.team_name = "A" /\ r.driver_skills = 7 /\ r.programming_skills = 0
    /\ \E r \in csv : /\ r.team_name = "B"
                       /\ ~Attempted("B", "driver")
                       /\ ~Attempted("B", "programming")
                       /\ r.driver_skills = 0
                       /\ r.programming_skills = 0

\* C14: with a non-empty match log, whatever the skills table, the classifier
\* and the merge do not raise: run_once does not end in an exception of the
\* merge.
C14_MergeNeverRaises ==
    (pc = "raised" /\ Len(matches) > 0) => exc # "KeyError"

\* C15: a cycle that ingests no valid match returns with the CSV and the
\* page exactly as the earlier cycle left them, and assembles no table.
C15_NoMatchWritesNothing ==
    (pc = "done" /\ Len(matches) = 0)
    => csv = PreviousCsv /\ html = PreviousCsv /\ table = {}

\* C15 witness: the endpoints answered, with match objects of which none is
\* valid, and the cycle has returned
C15_Witness ==
    /\ pc = "done"
    /\ faults = {}
    /\ Len(api_matches) > 0
    /\ Len(matches) = 0
    /\ csv = PreviousCsv

\* C16: whatever the dashboard loads is the complete table of the earlier
\* cycle or the complete table of this cycle.
C16_ViewerSeesWholeTable ==
    seen = PreviousCsv \/ (Assembled /\ seen = table)

\* C17: when run_once has returned or raised, the CSV and the page both show
\* the table of the earlier cycle or both show the table of this cycle.
C17_AllOrNothing ==
    pc \in {"done", "raised"}
    => \/ csv = PreviousCsv /\ html = PreviousCsv
       \/ csv = table /\ html = table

\* C18: a cycle in which the matches request of a division with matches
\* fails computes nothing and publishes nothing.
C18_DivisionFailureStopsCycle ==
    (\E k \in 1..Len(api_matches) : DivisionOf(k) \in faults)
    => elo_sos = {} /\ csv = PreviousCsv /\ html = PreviousCsv

\* ---------------------------------------------------------- the process
\* C19: with --loop N, N > 0, the process never ends: a cycle that raised is
\* logged, the loop sleeps and another cycle begins.  Without --loop exactly
\* one cycle runs, and a failure of it ends the process with the exception.
C19_LoopSurvivesFailedCycle ==
    /\ [](loop > 0 => pc \notin {"exited", "traceback"})
    /\ [][(loop > 0 /\ pc = "raised") => (pc' = "sleep" /\ logged')]_vars
    /\ (loop > 0 /\ pc = "raised") ~> (pc = "fetch_teams")
    /\ [](loop = 0 => cycles = 1)
    /\ [][(loop = 0 /\ pc = "raised") => (pc' = "traceback" /\ exc' = exc)]_vars
    /\ (loop = 0 /\ pc = "raised") ~> (pc = "traceback")

\* C19 witness: in loop mode a cycle failed, was logged, and the cycle after
\* it has published a table
C19_Witness ==
    /\ loop > 0
    /\ logged
    /\ cycles = 2
    /\ pc = "done"
    /\ exc = ""
    /\ csv = table
    /\ csv # {}

\* ------------------------------------------------------------- determinism
\* C20: a second call of compute_elo_sos on the same rows, in the same
\* order, with the same roster returns the ratings, the schedule strengths
\* and the rows of the first call: nothing of the first call is carried over.
C20_SameLogSameResult ==
    (pc = "returned" /\ first # << >>)
    => first[1] = [elo |-> elo, sos |-> sos, records |-> elo_sos]

\* C20 witness: both calls have returned, on a log of two valid rows that
\* moved a rating
C20_Witness ==
    /\ pc = "returned"
    /\ first # << >>
    /\ Len(matches) = 2
    /\ \A k \in 1..2 : RowValid(matches[k])
    /\ \E r \in elo_sos : r.elo # Baseline
    /\ first[1].records = elo_sos

\* ------------------------------------------------------------------ skills
\* the scores of the attempts of team t in a discipline, wherever they stand
\* in the rows
ScoresOf(t, type) ==
    { api_skills[k].score : k \in { j \in 1..Len(api_skills) :
                                      api_skills[j].team = t /\ api_skills[j].type = type } }

\* the maximum of a set of scores, 0 for the empty set
MaxScore(S) == IF S = {} THEN 0 ELSE SetMax(S)

\* C21: fetch_skills returns one row for each team named in the rows, whose
\* driver and programming values are the maximum score over all attempts of
\* that team in that discipline, 0 when it has none; the values depend on
\* the set of attempts only, not on the order of the rows.
C21_BestScorePerDiscipline ==
    pc = "check_empty"
    => /\ TeamNames(skills) = { api_skills[k].team : k \in 1..Len(api_skills) } \ {""}
       /\ \A r \in skills :
              /\ r.driver_skills = MaxScore(ScoresOf(r.team_name, "driver"))
              /\ r.programming_skills = MaxScore(ScoresOf(r.team_name, "programming"))
       /\ \A r1, r2 \in skills : r1.team_name = r2.team_name => r1 = r2

\* C21 witness: the best driver attempt of A comes first and lower ones follow,
\* A has no programming attempt
C21_Witness ==
    /\ pc = "check_empty"
    /\ Len(api_skills) = 3
    /\ api_skills[1] = Attempt("A", "driver", 7)
    /\ api_skills[2] = Attempt("A", "driver", 3)
    /\ api_skills[3] = Attempt("A", "", 9)
    /\ skills = { [team_name |-> "A", driver_skills |-> 7, programming_skills |-> 0] }

\* -------------------------------------------------------------------- _get
\* C22: a request answered 429 every time is sent at most 6 times (5
\* retries), a request that meets a 5xx or a timeout every time at most 4
\* times (3 retries), and after a 4xx other than 429 no further request is
\* sent: _get has raised NotFoundError.
C22_DocumentedRetryLimits ==
    /\ (\A k \in 1..Len(replies) : replies[k] = "429") => Len(replies) <= 6
    /\ (\A k \in 1..Len(replies) : replies[k] \in {"500", "timeout"}) => Len(replies) <= 4
    /\ \A k \in 1..Len(replies) :
          replies[k] = "404" => k = Len(replies) /\ pc = "raised" /\ exc = "NotFoundError"

\* ------------------------------------------------------------ conservation
RECURSIVE TotalRating(_, _)
\* the sum of the ratings d holds for the teams of S
TotalRating(d, S) ==
    IF S = {} THEN 0
    ELSE LET t == CHOOSE u \in S : TRUE IN d[t] + TotalRating(d, S \ {t})

\* C23: at every point of compute_elo_sos the ratings of the rating map add
\* up to 1500 times the number of its teams, and the row last iterated over
\* left the sum of the ratings as it was.
C23_RatingPointsConserved ==
    /\ TotalRating(elo, DOMAIN elo) = Baseline * Cardinality(DOMAIN elo)
    /\ RowApplied
       => TotalRating(elo, DOMAIN elo) - TotalRating(pre_elo, DOMAIN pre_elo)
          = Baseline * (Cardinality(DOMAIN elo) - Cardinality(DOMAIN pre_elo))

\* C23 witness: a decided match of two-team alliances and a draw have been
\* applied, five teams are in the map and ratings have moved
C23_Witness ==
    /\ pc = "returned"
    /\ Len(matches) = 2
    /\ Len(matches[1].red_teams) = 2
    /\ Len(matches[1].blue_teams) = 2
    /\ RowDecided(matches[1])
    /\ RowValid(matches[2])
    /\ ~RowDecided(matches[2])
    /\ Cardinality(DOMAIN elo) = 5
    /\ Cardinality({ elo[t] : t \in DOMAIN elo }) >= 4

\* ---------------------------------------------------------------- symmetry
\* the ways of listing the teams of a roster
Listings(roster) ==
    { [k \in 1..Len(roster) |-> roster[p[k]]] : p \in Permutations1(Len(roster)) }

\* the ratings after a row is applied to the ratings before the row last
\* iterated over
RatingsAfter(row) ==
    RowStep([elo |-> pre_elo, opponents |-> pre_opp, trace |-> << >>], row).elo

\* C24: the row last iterated over, with the teams of its rosters listed in
\* any other order, gives every team the rating it has now.
C24_RosterOrderIrrelevant ==
    RowApplied
    => \A red \in Listings(LastRow.red_teams), blue \in Listings(LastRow.blue_teams) :
           RatingsAfter([LastRow EXCEPT !.red_teams = red, !.blue_teams = blue]) = elo

\* a row with the colours of its alliances exchanged, rosters listed as they were
ColoursSwapped(row) ==
    [row EXCEPT !.red_teams = row.blue_teams, !.blue_teams = row.red_teams,
                !.red_score = row.blue_score, !.blue_score = row.red_score]

\* C25: when the row last iterated over is a valid draw, the same row with
\* red and blue exchanged gives every team the rating it has now.
C25_DrawColourSymmetry ==
    (RowApplied /\ RowValid(LastRow) /\ ~RowDecided(LastRow))
    => RatingsAfter(ColoursSwapped(LastRow)) = elo

\* C25 witness: a draw between a two-team alliance and another alliance,
\* whose teams had different ratings, has moved ratings
C25_Witness ==
    /\ RowApplied
    /\ idx = 2
    /\ RowValid(LastRow)
    /\ ~RowDecided(LastRow)
    /\ Len(LastRow.red_teams) + Len(LastRow.blue_teams) >= 3
    /\ Cardinality({ Before(t) : t \in Listed(LastRow) }) >= 3
    /\ \E t \in Listed(LastRow) : After(t) # Before(t)
    /\ RatingsAfter(ColoursSwapped(LastRow)) = elo
====
